---- MODULE Spec2Model ----
(***************************************************************************)
(* A model of update/src/main.rs, the generator of src/identifiers.rs:     *)
(* it parses its arguments, creates the output file, downloads the SPDX    *)
(* license list and the exception list, builds the two tables and runs     *)
(* rustfmt on the file.                                                    *)
(*                                                                         *)
(* A Rust string is a sequence of one-character strings (ASCII, one byte   *)
(* each, so that len() is the length of the sequence).  A serde_json       *)
(* Value is a record whose field t is the variant, with the payload in a   *)
(* field of the variant's own; an Object's payload is a function from its  *)
(* keys to Values, and a key it lacks is outside its DOMAIN.  A Result is  *)
(* [ok |-> TRUE, val] or [ok |-> FALSE, err].                              *)
(*                                                                         *)
(* Of the I/O that can fail, File::create, the two downloads and the spawn *)
(* of rustfmt do so in the model; a write to the created file or to stderr *)
(* always succeeds.  What -d prints is not part of the state.              *)
(***************************************************************************)
EXTENDS Integers, Sequences, FiniteSets, TLC

VARIABLES
    args,           \* env::args().skip(1), not yet read
    pc,             \* the statement of main/real_main control is at
    debug,          \* real_main's `debug`
    upstream_tag,   \* real_main's `upstream_tag`
    created,        \* whether File::create("src/identifiers.rs") has run
    identifiers,    \* what has been written to src/identifiers.rs, in order
    fetches,        \* every reqwest::blocking::get made: its uri and response
    json,           \* the `json` map handed to the running closure
    i,              \* index of the next element the closure's for loop reads
    v,              \* the closure's `v`
    rustfmt,        \* what each spawn of rustfmt came to, in order
    result,         \* "Running", or what real_main returned: "Ok" or "Err"
    error,          \* the kind of the error real_main returned ("" if none)
    exit_code       \* the process's exit code (-1 while it runs)

vars == <<args, pc, debug, upstream_tag, created, identifiers, fetches, json,
          i, v, rustfmt, result, error, exit_code>>

----------------------------------------------------------------------------
(* Bounds of the model *)

MaxArgs == 2
MaxLicenses == 2
MaxExceptions == 2

----------------------------------------------------------------------------
(* Strings *)

\* The byte of an ASCII character (u8 of a one-byte char).
Byte(c) ==
    CASE c = " " -> 32 [] c = "-" -> 45 [] c = "." -> 46 [] c = "0" -> 48
      [] c = "1" -> 49 [] c = "2" -> 50 [] c = "3" -> 51 [] c = "4" -> 52
      [] c = "6" -> 54 [] c = "7" -> 55 [] c = "8" -> 56 [] c = "A" -> 65
      [] c = "B" -> 66 [] c = "C" -> 67 [] c = "D" -> 68 [] c = "E" -> 69
      [] c = "F" -> 70 [] c = "G" -> 71 [] c = "I" -> 73 [] c = "L" -> 76
      [] c = "M" -> 77 [] c = "N" -> 78 [] c = "O" -> 79 [] c = "P" -> 80
      [] c = "Q" -> 81 [] c = "R" -> 82 [] c = "S" -> 83 [] c = "T" -> 84
      [] c = "U" -> 85 [] c = "V" -> 86 [] c = "Y" -> 89 [] c = "_" -> 95
      [] c = "a" -> 97 [] c = "c" -> 99 [] c = "d" -> 100 [] c = "e" -> 101
      [] c = "i" -> 105 [] c = "k" -> 107 [] c = "l" -> 108 [] c = "m" -> 109
      [] c = "n" -> 110 [] c = "o" -> 111 [] c = "p" -> 112 [] c = "r" -> 114
      [] c = "s" -> 115 [] c = "t" -> 116 [] c = "u" -> 117 [] c = "v" -> 118
      [] c = "x" -> 120 [] c = "y" -> 121 [] c = "|" -> 124

\* str::starts_with
starts_with(s, prefix) ==
    /\ Len(s) >= Len(prefix)
    /\ SubSeq(s, 1, Len(prefix)) = prefix

\* <str as Ord>::cmp: lexicographic on the bytes
RECURSIVE cmp(_, _)
cmp(a, b) ==
    IF a = <<>> /\ b = <<>> THEN "Equal"
    ELSE IF a = <<>> THEN "Less"
    ELSE IF b = <<>> THEN "Greater"
    ELSE IF Byte(Head(a)) < Byte(Head(b)) THEN "Less"
    ELSE IF Byte(Head(a)) > Byte(Head(b)) THEN "Greater"
    ELSE cmp(Tail(a), Tail(b))

\* String::truncate
truncate(s, new_len) == IF new_len < Len(s) THEN SubSeq(s, 1, new_len) ELSE s

\* One step of the stable sort: x goes after every element not greater than it.
RECURSIVE sort_insert(_, _)
sort_insert(sorted, x) ==
    IF sorted = <<>> THEN <<x>>
    ELSE IF cmp(Head(sorted)[1], x[1]) = "Greater" THEN <<x>> \o sorted
    ELSE <<Head(sorted)>> \o sort_insert(Tail(sorted), x)

\* The sort forgotten
sort_by_nothing(s) == s

\* slice::sort_by(|a, b| a.0.cmp(&b.0)) and sort_by_key(|v| v.0): a stable
\* sort of tuples on their first component.
RECURSIVE sort_by(_)
sort_by(s) ==
    IF s = <<>> THEN <<>>
    ELSE sort_insert(sort_by(SubSeq(s, 1, Len(s) - 1)), s[Len(s)])

----------------------------------------------------------------------------
(* serde_json values and Results *)

String(s) == [t |-> "String", s |-> s]
Bool(b) == [t |-> "Bool", b |-> b]
Number == [t |-> "Number"]
Array(a) == [t |-> "Array", a |-> a]
Object(m) == [t |-> "Object", m |-> m]

Ok(x) == [ok |-> TRUE, val |-> x]
Err(e) == [ok |-> FALSE, err |-> e]

\* The error of get() and of every bail!("Malformed JSON: ...")
MalformedJSON == "Malformed JSON"

get(m, k) == IF k \in DOMAIN m THEN Ok(m[k]) ELSE Err(MalformedJSON)

\* download, up to its call of `action`
download(response, dbg) ==
    IF response.t = "Error" THEN Err("reqwest")
    ELSE IF response.t # "Object" THEN Err(MalformedJSON)
    ELSE IF dbg /\ ~get(response.m, "licenseListVersion").ok THEN Err(MalformedJSON)
    ELSE Ok(response.m)

----------------------------------------------------------------------------
(* The classifier *)

is_copyleft(license) ==
    \/ starts_with(license, <<"A","G","P","L","-">>)
    \/ starts_with(license, <<"C","C","-","B","Y","-","N","C","-","S","A","-">>)
    \/ starts_with(license, <<"C","C","-","B","Y","-","S","A","-">>)
    \/ starts_with(license, <<"C","E","C","I","L","L","-">>)
    \/ starts_with(license, <<"C","P","L","-">>)
    \/ starts_with(license, <<"C","D","D","L","-">>)
    \/ starts_with(license, <<"E","U","P","L">>)
    \/ starts_with(license, <<"G","F","D","L","-">>)
    \/ starts_with(license, <<"G","P","L","-">>)
    \/ starts_with(license, <<"L","G","P","L","-">>)
    \/ starts_with(license, <<"M","P","L","-">>)
    \/ starts_with(license, <<"N","P","L","-">>)
    \/ starts_with(license, <<"O","S","L","-">>)
    \/ license = <<"B","S","D","-","P","r","o","t","e","c","t","i","o","n">>
    \/ license = <<"M","S","-","P","L">>
    \/ license = <<"M","S","-","R","L">>
    \/ license = <<"P","a","r","i","t","y","-","6",".","0",".","0">>
    \/ license = <<"S","I","S","S","L">>
    \/ license = <<"x","i","n","e","t","d">>
    \/ license = <<"Y","P","L","-","1",".","1">>

\* is_gnu with its last prefix forgotten
is_gnu_without_lgpl(license) ==
    \/ starts_with(license, <<"A","G","P","L","-">>)
    \/ starts_with(license, <<"G","F","D","L","-">>)
    \/ starts_with(license, <<"G","P","L","-">>)

is_gnu(license) ==
    \/ starts_with(license, <<"A","G","P","L","-">>)
    \/ starts_with(license, <<"G","F","D","L","-">>)
    \/ starts_with(license, <<"G","P","L","-">>)
    \/ starts_with(license, <<"L","G","P","L","-">>)

\* if let Ok(Value::Bool(val)) = get(lic, key) { if *val { flags.push_str(text) } }
push_if_true(flags, lic, key, text) ==
    LET r == get(lic, key)
    IN  IF r.ok /\ r.val.t = "Bool" /\ r.val.b THEN flags \o text ELSE flags

\* The `flags` string of one license element
license_flags(lic, id) ==
    LET f1 == push_if_true(<<>>, lic, "isDeprecatedLicenseId", <<"I","S","_","D","E","P","R","E","C","A","T","E","D"," ","|"," ">>)
        f2 == push_if_true(f1, lic, "isOsiApproved", <<"I","S","_","O","S","I","_","A","P","P","R","O","V","E","D"," ","|"," ">>)
        f3 == push_if_true(f2, lic, "isFsfLibre", <<"I","S","_","F","S","F","_","L","I","B","R","E"," ","|"," ">>)
        f4 == IF is_copyleft(id) THEN f3 \o <<"I","S","_","C","O","P","Y","L","E","F","T"," ","|"," ">> ELSE f3
        f5 == IF is_gnu(id) THEN f4 \o <<"I","S","_","G","N","U"," ","|"," ">> ELSE f4
    IN  IF f5 = <<>> THEN <<"0","x","0">> ELSE truncate(f5, Len(f5) - 3)

\* invariants_version with the suffix forgotten
invariants_version_same_id(id, full_name, flags) ==
    IF starts_with(id, <<"G","F","D","L","-">>) /\ Len(id) < 9
    THEN << <<id, full_name, flags>> >>
    ELSE <<>>

\* The `-invariants` version of a root GFDL-<version> license
invariants_version(id, full_name, flags) ==
    IF starts_with(id, <<"G","F","D","L","-">>) /\ Len(id) < 9
    THEN << <<id \o <<"-","i","n","v","a","r","i","a","n","t","s">>, full_name, flags>> >>
    ELSE <<>>

\* The loop's body for an element whose licenseId is the string id: the
\* records it pushes onto v, or the error of the `?` on its name
license_records(lic, id) ==
    LET flags == license_flags(lic, id)
        name == get(lic, "name")
    IN  IF ~name.ok THEN Err(MalformedJSON)
        ELSE LET full_name == IF name.val.t = "String" THEN name.val.s ELSE id
             IN  Ok(invariants_version(id, full_name, flags)
                    \o << <<id, full_name, flags>> >>)

\* license_entry skipping, not bailing on, an element without a string id
license_entry_skipping(lic) ==
    IF lic.t # "Object" THEN Err(MalformedJSON)
    ELSE LET lic_id == get(lic.m, "licenseId")
         IN  IF ~lic_id.ok \/ lic_id.val.t # "String" THEN Ok(<<>>)
             ELSE license_records(lic.m, lic_id.val.s)

\* The body of the license closure's for loop: the records one element of
\* `licenses` pushes onto v, or the error it bails with
license_entry(lic) ==
    IF lic.t # "Object" THEN Err(MalformedJSON)
    ELSE LET lic_id == get(lic.m, "licenseId")
         IN  IF ~lic_id.ok THEN Err(MalformedJSON)
             ELSE IF lic_id.val.t # "String" THEN Err(MalformedJSON)
             ELSE license_records(lic.m, lic_id.val.s)

\* get(&json, "licenses") and the check that it is an array
licenses_array(m) ==
    LET licenses == get(m, "licenses")
    IN  IF ~licenses.ok THEN Err(MalformedJSON)
        ELSE IF licenses.val.t # "Array" THEN Err(MalformedJSON)
        ELSE Ok(licenses.val.a)

\* with_sentinel without the push
with_sentinel_forgotten(recs) == recs

\* v.push(("NOASSERTION".to_owned(), &name, "0x0".to_owned()))
with_sentinel(recs) ==
    Append(recs, <<<<"N","O","A","S","S","E","R","T","I","O","N">>, <<"N","O","A","S","S","E","R","T","I","O","N">>, <<"0","x","0">>>>)

\* The lines of the license table
license_lines(sorted) ==
    << [line |-> "LICENSES"] >>
    \o [k \in 1..Len(sorted) |->
           [line |-> "license", id |-> sorted[k][1], name |-> sorted[k][2],
            flags |-> sorted[k][3]]]
    \o << [line |-> "];"] >>

\* licenses_emit writing the version constant after the table
licenses_emit_version_last(m, recs) ==
    LET sorted == sort_by(with_sentinel(recs))
        lic_list_ver == get(m, "licenseListVersion")
    IN  IF ~lic_list_ver.ok THEN Err(MalformedJSON)
        ELSE IF lic_list_ver.val.t # "String" THEN Err(MalformedJSON)
        ELSE Ok(license_lines(sorted)
                \o << [line |-> "VERSION", s |-> lic_list_ver.val.s],
                      [line |-> "blank"] >>)

\* The end of the license closure: the sentinel, the sort, the version and
\* the lines written to the file (or the error, with nothing written)
licenses_emit(m, recs) ==
    LET sorted == sort_by(with_sentinel(recs))
        lic_list_ver == get(m, "licenseListVersion")
    IN  IF ~lic_list_ver.ok THEN Err(MalformedJSON)
        ELSE IF lic_list_ver.val.t # "String" THEN Err(MalformedJSON)
        ELSE Ok(<< [line |-> "VERSION", s |-> lic_list_ver.val.s],
                   [line |-> "blank"] >>
                \o license_lines(sorted))

\* The whole for loop of the license closure, from records `acc`
RECURSIVE license_loop(_, _)
license_loop(licenses, acc) ==
    IF licenses = <<>> THEN Ok(acc)
    ELSE LET r == license_entry(Head(licenses))
         IN  IF ~r.ok THEN r ELSE license_loop(Tail(licenses), acc \o r.val)

\* The license closure as a whole: the lines it writes, or its error
licenses_closure(m) ==
    LET a == licenses_array(m)
    IN  IF ~a.ok THEN a
        ELSE LET l == license_loop(a.val, <<>>)
             IN  IF ~l.ok THEN l ELSE licenses_emit(m, l.val)

----------------------------------------------------------------------------
(* The exception table *)

\* The body of the exception closure's for loop
exception_entry(exc) ==
    IF exc.t # "Object" THEN Err(MalformedJSON)
    ELSE LET lic_exc_id == get(exc.m, "licenseExceptionId")
         IN  IF ~lic_exc_id.ok THEN Err(MalformedJSON)
             ELSE IF lic_exc_id.val.t # "String" THEN Err(MalformedJSON)
             ELSE LET d == get(exc.m, "isDeprecatedLicenseId")
                      flags == IF d.ok /\ d.val.t = "Bool" /\ d.val.b
                               THEN <<"I","S","_","D","E","P","R","E","C","A","T","E","D">> ELSE <<"0">>
                  IN  Ok(<< <<lic_exc_id.val.s, flags>> >>)

exceptions_array(m) ==
    LET exceptions == get(m, "exceptions")
    IN  IF ~exceptions.ok THEN Err(MalformedJSON)
        ELSE IF exceptions.val.t # "Array" THEN Err(MalformedJSON)
        ELSE Ok(exceptions.val.a)

\* The end of the exception closure: the lines written to the file
exceptions_emit(recs) ==
    LET sorted == sort_by(recs)
    IN  << [line |-> "EXCEPTIONS"] >>
        \o [k \in 1..Len(sorted) |->
               [line |-> "exception", id |-> sorted[k][1], flags |-> sorted[k][2]]]
        \o << [line |-> "];"] >>

RECURSIVE exception_loop(_, _)
exception_loop(exceptions, acc) ==
    IF exceptions = <<>> THEN Ok(acc)
    ELSE LET r == exception_entry(Head(exceptions))
         IN  IF ~r.ok THEN r ELSE exception_loop(Tail(exceptions), acc \o r.val)

exceptions_closure(m) ==
    LET a == exceptions_array(m)
    IN  IF ~a.ok THEN a
        ELSE LET l == exception_loop(a.val, <<>>)
             IN  IF ~l.ok THEN l ELSE Ok(exceptions_emit(l.val))

----------------------------------------------------------------------------
(* The file *)

\* The first writeln!: the comment naming the tag, then the five constants
header(tag) ==
    << [line |-> "comment", tag |-> tag],
       [line |-> "constants", IS_FSF_LIBRE |-> 1, IS_OSI_APPROVED |-> 2,
        IS_DEPRECATED |-> 4, IS_COPYLEFT |-> 8, IS_GNU |-> 16] >>

\* writeln!(identifiers)?; writeln!(identifiers, "{}", IMPRECISE)?
imprecise == << [line |-> "blank"], [line |-> "IMPRECISE"] >>

\* real_main from the first download on, for a file already created and
\* headed: what it returns and what it adds to the file.  `fmt` is what
\* spawning rustfmt comes to.
real_main_from_download(dbg, licenses_response, exceptions_response, fmt) ==
    LET d1 == download(licenses_response, dbg)
        c1 == IF d1.ok THEN licenses_closure(d1.val) ELSE d1
        d2 == download(exceptions_response, dbg)
        c2 == IF d2.ok THEN exceptions_closure(d2.val) ELSE d2
    IN  IF ~c1.ok THEN [result |-> "Err", error |-> c1.err, written |-> <<>>]
        ELSE IF ~c2.ok
             THEN [result |-> "Err", error |-> c2.err,
                   written |-> c1.val \o imprecise]
        ELSE IF fmt = "not spawned"
             THEN [result |-> "Err", error |-> "failed to run rustfmt",
                   written |-> c1.val \o imprecise \o c2.val]
        ELSE [result |-> "Ok", error |-> "",
              written |-> c1.val \o imprecise \o c2.val]

----------------------------------------------------------------------------
(* The arguments *)

\* The for loop over env::args().skip(1), then the choice of the tag
RECURSIVE parse_args(_, _, _)
parse_args(a, dbg, tag) ==
    IF a = <<>>
    THEN Ok([debug |-> dbg, upstream_tag |-> IF tag = <<>> THEN <<"m","a","s","t","e","r">> ELSE tag])
    ELSE IF Head(a) = <<"-","d">> THEN parse_args(Tail(a), TRUE, tag)
    ELSE IF starts_with(Head(a), <<"v">>) THEN parse_args(Tail(a), dbg, Head(a))
    ELSE Err("Unknown option")

----------------------------------------------------------------------------
(* The inputs *)

\* Command-line arguments
Args == {<<"-","d">>, <<"v","3",".","8">>, <<"x">>}

ArgLists == UNION {[1..n -> Args] : n \in 0..MaxArgs}

\* Elements of the `licenses` array of licenses.json
LicenseElements ==
    { Number,
      Object([name |-> String(<<"M","I","T"," ","L","i","c","e","n","s","e">>)]),
      Object([licenseId |-> Number, name |-> String(<<"M","I","T"," ","L","i","c","e","n","s","e">>)]),
      Object([licenseId |-> String(<<"M","I","T">>), isOsiApproved |-> Bool(TRUE)]),
      Object([licenseId |-> String(<<"M","I","T">>), name |-> Number,
              isOsiApproved |-> Bool(TRUE)]),
      Object([licenseId |-> String(<<"G","F","D","L","-","1",".","3">>), name |-> String(<<"G","N","U"," ","F","D","L"," ","v","1",".","3">>),
              isDeprecatedLicenseId |-> Bool(TRUE), isFsfLibre |-> Bool(TRUE)]),
      Object([licenseId |-> String(<<"G","F","D","L","-","1",".","3","-","i","n","v","a","r","i","a","n","t","s">>),
              name |-> String(<<"G","N","U"," ","F","D","L"," ","v","1",".","3"," ","i","n","v","a","r","i","a","n","t","s">>),
              isOsiApproved |-> Bool(FALSE)]),
      Object([licenseId |-> String(<<"N","O","A","S","S","E","R","T","I","O","N">>), name |-> String(<<"N","o","n","e">>),
              isDeprecatedLicenseId |-> Bool(TRUE)]) }

\* A key of an object: absent, or present with one of the values
Opt(k, values) == {<<>>} \cup {k :> x : x \in values}

SeqsUpTo(S, n) == UNION {[1..k -> S] : k \in 0..n}

\* What fetching licenses.json may give: an error of reqwest (the transfer,
\* or a body that is no JSON), a JSON value that is no object, or an object
LicenseResponses ==
    {[t |-> "Error"], Number}
    \cup { Object(ver @@ lics) :
             ver \in Opt("licenseListVersion", {Number, String(<<"3",".","8">>)}),
             lics \in Opt("licenses",
                          {Number} \cup {Array(a) :
                               a \in SeqsUpTo(LicenseElements, MaxLicenses)}) }

\* Elements of the `exceptions` array of exceptions.json
ExceptionElements ==
    { Number,
      Object([name |-> String(<<"B","i","s","o","n">>)]),
      Object([licenseExceptionId |-> Number]),
      Object([licenseExceptionId |-> String(<<"N","o","k","i","a","-","Q","t","-","e","x","c","e","p","t","i","o","n","-","1",".","1">>),
              isDeprecatedLicenseId |-> Bool(TRUE)]),
      Object([licenseExceptionId |-> String(<<"B","i","s","o","n","-","e","x","c","e","p","t","i","o","n","-","2",".","2">>),
              name |-> String(<<"B","i","s","o","n">>)]) }

ExceptionResponses ==
    {[t |-> "Error"], Number}
    \cup { Object(ver @@ excs) :
             ver \in Opt("licenseListVersion", {String(<<"3",".","8">>)}),
             excs \in Opt("exceptions",
                          {Number} \cup {Array(a) :
                               a \in SeqsUpTo(ExceptionElements, MaxExceptions)}) }

\* What spawning rustfmt may come to: the spawn fails, or rustfmt runs and
\* exits with success or with failure
RustfmtOutcomes == {"not spawned", "exit 0", "exit 1"}

----------------------------------------------------------------------------
(* The program *)

Init ==
    /\ args \in ArgLists
    /\ pc = "start"
    /\ debug = FALSE
    /\ upstream_tag = <<>>
    /\ created = FALSE
    /\ identifiers = <<>>
    /\ fetches = <<>>
    /\ json = <<>>
    /\ i = 0
    /\ v = <<>>
    /\ rustfmt = <<>>
    /\ result = "Running"
    /\ error = ""
    /\ exit_code = -1

\* real_main returns Err(e): a `?` or a bail!; the closure's locals are dropped
Fail(e) ==
    /\ pc' = "returned"
    /\ result' = "Err"
    /\ error' = e
    /\ json' = <<>>
    /\ i' = 0
    /\ v' = <<>>

\* Lines 79-106
ParseArgs ==
    /\ pc = "start"
    /\ LET r == parse_args(args, FALSE, <<>>)
       IN  IF r.ok
           THEN /\ debug' = r.val.debug
                /\ upstream_tag' = r.val.upstream_tag
                /\ pc' = "create"
                /\ UNCHANGED <<result, error, json, i, v>>
           ELSE /\ Fail(r.err)
                /\ UNCHANGED <<debug, upstream_tag>>
    /\ args' = <<>>
    /\ UNCHANGED <<created, identifiers, fetches, rustfmt, exit_code>>

\* Lines 108-129: File::create and the first writeln!
CreateFile ==
    /\ pc = "create"
    /\ \E io_ok \in BOOLEAN :
         IF io_ok
         THEN /\ created' = TRUE
              /\ identifiers' = header(upstream_tag)
              /\ pc' = "download licenses"
              /\ UNCHANGED <<result, error, json, i, v>>
         ELSE /\ Fail("io")
              /\ UNCHANGED <<created, identifiers>>
    /\ UNCHANGED <<args, debug, upstream_tag, fetches, rustfmt, exit_code>>

\* Lines 131-136 and download (13-33) up to the call of the closure
DownloadLicenses ==
    /\ pc = "download licenses"
    /\ \E response \in LicenseResponses :
         /\ fetches' = Append(fetches, [uri |-> <<upstream_tag, "json/licenses.json">>,
                                        response |-> response])
         /\ LET r == download(response, debug)
            IN  IF r.ok
                THEN /\ json' = r.val
                     /\ pc' = "licenses"
                     /\ UNCHANGED <<result, error, i, v>>
                ELSE Fail(r.err)
    /\ UNCHANGED <<args, debug, upstream_tag, created, identifiers, rustfmt, exit_code>>

\* Lines 139-147
LicensesBegin ==
    /\ pc = "licenses"
    /\ LET r == licenses_array(json)
       IN  IF r.ok
           THEN /\ pc' = "license loop"
                /\ i' = 1
                /\ v' = <<>>
                /\ UNCHANGED <<result, error, json>>
           ELSE Fail(r.err)
    /\ UNCHANGED <<args, debug, upstream_tag, created, identifiers, fetches, rustfmt,
                   exit_code>>

\* Lines 148-211: one iteration of the for loop
LicenseStep ==
    /\ pc = "license loop"
    /\ i <= Len(json["licenses"].a)
    /\ LET r == license_entry(json["licenses"].a[i])
       IN  IF r.ok
           THEN /\ v' = v \o r.val
                /\ i' = i + 1
                /\ UNCHANGED <<pc, result, error, json>>
           ELSE Fail(r.err)
    /\ UNCHANGED <<args, debug, upstream_tag, created, identifiers, fetches, rustfmt,
                   exit_code>>

\* Lines 213-233: after the loop
LicensesEmit ==
    /\ pc = "license loop"
    /\ i > Len(json["licenses"].a)
    /\ LET r == licenses_emit(json, v)
       IN  IF r.ok
           THEN /\ identifiers' = identifiers \o r.val
                /\ pc' = "imprecise"
                /\ json' = <<>>
                /\ i' = 0
                /\ v' = <<>>
                /\ UNCHANGED <<result, error>>
           ELSE /\ Fail(r.err)
                /\ UNCHANGED identifiers
    /\ UNCHANGED <<args, debug, upstream_tag, created, fetches, rustfmt, exit_code>>

\* Lines 238-242
WriteImprecise ==
    /\ pc = "imprecise"
    /\ identifiers' = identifiers \o imprecise
    /\ pc' = "download exceptions"
    /\ UNCHANGED <<args, debug, upstream_tag, created, fetches, json, i, v, rustfmt,
                   result, error, exit_code>>

\* Lines 244-249 and download (13-33) up to the call of the closure
DownloadExceptions ==
    /\ pc = "download exceptions"
    /\ \E response \in ExceptionResponses :
         /\ fetches' = Append(fetches, [uri |-> <<upstream_tag, "json/exceptions.json">>,
                                        response |-> response])
         /\ LET r == download(response, debug)
            IN  IF r.ok
                THEN /\ json' = r.val
                     /\ pc' = "exceptions"
                     /\ UNCHANGED <<result, error, i, v>>
                ELSE Fail(r.err)
    /\ UNCHANGED <<args, debug, upstream_tag, created, identifiers, rustfmt, exit_code>>

\* Lines 252-260
ExceptionsBegin ==
    /\ pc = "exceptions"
    /\ LET r == exceptions_array(json)
       IN  IF r.ok
           THEN /\ pc' = "exception loop"
                /\ i' = 1
                /\ v' = <<>>
                /\ UNCHANGED <<result, error, json>>
           ELSE Fail(r.err)
    /\ UNCHANGED <<args, debug, upstream_tag, created, identifiers, fetches, rustfmt,
                   exit_code>>

\* Lines 261-292: one iteration of the for loop
ExceptionStep ==
    /\ pc = "exception loop"
    /\ i <= Len(json["exceptions"].a)
    /\ LET r == exception_entry(json["exceptions"].a[i])
       IN  IF r.ok
           THEN /\ v' = v \o r.val
                /\ i' = i + 1
                /\ UNCHANGED <<pc, result, error, json>>
           ELSE Fail(r.err)
    /\ UNCHANGED <<args, debug, upstream_tag, created, identifiers, fetches, rustfmt,
                   exit_code>>

\* Lines 294-301: after the loop
ExceptionsEmit ==
    /\ pc = "exception loop"
    /\ i > Len(json["exceptions"].a)
    /\ identifiers' = identifiers \o exceptions_emit(v)
    /\ pc' = "rustfmt"
    /\ json' = <<>>
    /\ i' = 0
    /\ v' = <<>>
    /\ UNCHANGED <<args, debug, upstream_tag, created, fetches, rustfmt, result, error,
                   exit_code>>

\* Lines 306-314: the file is closed and rustfmt spawned; only a failure to
\* spawn it is an error, its exit status is not looked at
RunRustfmt ==
    /\ pc = "rustfmt"
    /\ \E outcome \in RustfmtOutcomes :
         /\ rustfmt' = Append(rustfmt, outcome)
         /\ IF outcome = "not spawned"
            THEN Fail("failed to run rustfmt")
            ELSE /\ pc' = "returned"
                 /\ result' = "Ok"
                 /\ UNCHANGED <<error, json, i, v>>
    /\ UNCHANGED <<args, debug, upstream_tag, created, identifiers, fetches, exit_code>>

\* main without its process::exit(1)
MainExitsZero ==
    /\ pc = "returned"
    /\ exit_code' = 0
    /\ pc' = "exited"
    /\ UNCHANGED <<args, debug, upstream_tag, created, identifiers, fetches, json, i, v,
                   rustfmt, result, error>>

\* Lines 317-322
Main ==
    /\ pc = "returned"
    /\ exit_code' = IF result = "Err" THEN 1 ELSE 0
    /\ pc' = "exited"
    /\ UNCHANGED <<args, debug, upstream_tag, created, identifiers, fetches, json, i, v,
                   rustfmt, result, error>>

Next ==
    \/ ParseArgs
    \/ CreateFile
    \/ DownloadLicenses
    \/ LicensesBegin
    \/ LicenseStep
    \/ LicensesEmit
    \/ WriteImprecise
    \/ DownloadExceptions
    \/ ExceptionsBegin
    \/ ExceptionStep
    \/ ExceptionsEmit
    \/ RunRustfmt
    \/ Main

Spec == Init /\ [][Next]_vars

----------------------------------------------------------------------------
(* The license loop on one element, over a wide range of elements *)

\* Identifiers on and off the classifier's lists, of lengths on both sides
\* of the 9 of the GFDL rule
ElementIds ==
    { <<"A","G","P","L","-","3",".","0">>, <<"C","C","-","B","Y","-","N","C","-","S","A","-","4",".","0">>, <<"C","C","-","B","Y","-","S","A","-","4",".","0">>, <<"C","C","-","B","Y","-","4",".","0">>,
      <<"C","E","C","I","L","L","-","2",".","1">>, <<"C","P","L","-","1",".","0">>, <<"C","D","D","L","-","1",".","0">>, <<"E","U","P","L","-","1",".","2">>, <<"E","U","P","L">>, <<"E","U","P">>,
      <<"G","F","D","L","-","1",".","3">>, <<"G","F","D","L","-","1",".","1","0">>, <<"G","F","D","L","-","1",".","3","-","o","n","l","y">>, <<"G","F","D","L","-">>, <<"G","F","D","L">>,
      <<"G","P","L","-","3",".","0","-","o","n","l","y">>, <<"G","P","L">>, <<"L","G","P","L","-","2",".","1","-","o","n","l","y">>, <<"M","P","L","-","2",".","0">>, <<"N","P","L","-","1",".","1">>,
      <<"O","S","L","-","3",".","0">>, <<"B","S","D","-","P","r","o","t","e","c","t","i","o","n">>, <<"B","S","D","-","3","-","C","l","a","u","s","e">>, <<"M","S","-","P","L">>, <<"M","S","-","R","L">>,
      <<"M","S","-","P">>, <<"P","a","r","i","t","y","-","6",".","0",".","0">>, <<"P","a","r","i","t","y","-","7",".","0",".","0">>, <<"S","I","S","S","L">>, <<"S","I","S","S","L","-","1",".","2">>,
      <<"x","i","n","e","t","d">>, <<"Y","P","L","-","1",".","1">>, <<"Y","P","L","-","1",".","0">>, <<"M","I","T">>, <<"O","p","e","n","S","S","L">>, <<"N","O","A","S","S","E","R","T","I","O","N">> }

FlagFieldValues == {Number, Bool(FALSE), Bool(TRUE)}

\* Every object made of the five keys the loop reads, each absent, of the
\* wrong type or of the right one; and a value that is no object
WideLicenseElements ==
    {Number}
    \cup { Object(id @@ name @@ d @@ o @@ f) :
             id \in Opt("licenseId", {Number} \cup {String(x) : x \in ElementIds}),
             name \in Opt("name", {Number, String(<<"A"," ","L","i","c","e","n","s","e">>)}),
             d \in Opt("isDeprecatedLicenseId", FlagFieldValues),
             o \in Opt("isOsiApproved", FlagFieldValues),
             f \in Opt("isFsfLibre", FlagFieldValues) }

\* The program at the top of the license loop, having fetched a licenses.json
\* of one element from the master branch
InitElement ==
    \E e \in WideLicenseElements :
        LET m == [licenseListVersion |-> String(<<"3",".","8">>), licenses |-> Array(<<e>>)]
        IN  /\ args = <<>>
            /\ pc = "license loop"
            /\ debug = FALSE
            /\ upstream_tag = <<"m","a","s","t","e","r">>
            /\ created = TRUE
            /\ identifiers = header(<<"m","a","s","t","e","r">>)
            /\ fetches = << [uri |-> <<<<"m","a","s","t","e","r">>, "json/licenses.json">>,
                             response |-> Object(m)] >>
            /\ json = m
            /\ i = 1
            /\ v = <<>>
            /\ rustfmt = <<>>
            /\ result = "Running"
            /\ error = ""
            /\ exit_code = -1

NextElement ==
    \/ LicenseStep
    \/ LicensesEmit

SpecElement == InitElement /\ [][NextElement]_vars

----------------------------------------------------------------------------
(* Reading the emitted file *)

\* The u8 a constant of the emitted file names: one of the five of the
\* `constants` line, or a literal
constant_value(consts, name) ==
    CASE name = <<"I","S","_","F","S","F","_","L","I","B","R","E">> -> consts.IS_FSF_LIBRE
      [] name = <<"I","S","_","O","S","I","_","A","P","P","R","O","V","E","D">> -> consts.IS_OSI_APPROVED
      [] name = <<"I","S","_","D","E","P","R","E","C","A","T","E","D">> -> consts.IS_DEPRECATED
      [] name = <<"I","S","_","C","O","P","Y","L","E","F","T">> -> consts.IS_COPYLEFT
      [] name = <<"I","S","_","G","N","U">> -> consts.IS_GNU
      [] name = <<"0","x","0">> -> 0
      [] name = <<"0">> -> 0
      [] OTHER -> -1

\* The operands of an expression `A | B | ...`
RECURSIVE operands(_, _)
operands(text, cur) ==
    IF text = <<>> THEN <<cur>>
    ELSE IF starts_with(text, <<" ","|"," ">>)
         THEN <<cur>> \o operands(SubSeq(text, 4, Len(text)), <<>>)
    ELSE operands(Tail(text), Append(cur, Head(text)))

\* a | b on u8
RECURSIVE bit_or(_, _)
bit_or(a, b) ==
    IF a = 0 THEN b
    ELSE IF b = 0 THEN a
    ELSE (IF a % 2 = 1 \/ b % 2 = 1 THEN 1 ELSE 0) + 2 * bit_or(a \div 2, b \div 2)

RECURSIVE or_all(_)
or_all(values) ==
    IF values = <<>> THEN 0 ELSE bit_or(Head(values), or_all(Tail(values)))

\* The value of the flags expression of a table row, as the compiler of the
\* emitted file computes it (-1: the expression does not compile)
flags_value(consts, text) ==
    LET ops == operands(text, <<>>)
        values == [k \in 1..Len(ops) |-> constant_value(consts, ops[k])]
    IN  IF \E k \in 1..Len(values) : values[k] = -1 THEN -1 ELSE or_all(values)

----------------------------------------------------------------------------
(* Vocabulary of the properties *)

IsPrefix(p, s) == Len(p) <= Len(s) /\ \A k \in 1..Len(p) : s[k] = p[k]

\* a <= b in the byte-lexicographic order
LexLe(a, b) ==
    \/ IsPrefix(a, b)
    \/ \E k \in 1..Len(a) :
         /\ k <= Len(b)
         /\ \A j \in 1..(k - 1) : a[j] = b[j]
         /\ Byte(a[k]) < Byte(b[k])

Distinct(s) == \A a, b \in 1..Len(s) : a # b => s[a] # s[b]

Lines(kind) == SelectSeq(identifiers, LAMBDA l : l.line = kind)

Kinds == [k \in 1..Len(identifiers) |-> identifiers[k].line]

LicenseIds == [k \in 1..Len(Lines("license")) |-> Lines("license")[k].id]

ExceptionIds == [k \in 1..Len(Lines("exception")) |-> Lines("exception")[k].id]

SortedIds(ids) == \A k \in 1..(Len(ids) - 1) : LexLe(ids[k], ids[k + 1])

\* The license table has been written
TableEmitted == Lines("LICENSES") # <<>>

Ended == pc \in {"returned", "exited"}

\* The fetched license document is an object with a `licenses` array
HasLicensesArray ==
    /\ Len(fetches) >= 1
    /\ fetches[1].response.t = "Object"
    /\ "licenses" \in DOMAIN fetches[1].response.m
    /\ fetches[1].response.m["licenses"].t = "Array"

\* The upstream `licenses` array of the run
Upstream == fetches[1].response.m["licenses"].a

HasStringId(e) ==
    /\ e.t = "Object"
    /\ "licenseId" \in DOMAIN e.m
    /\ e.m["licenseId"].t = "String"

IdOf(e) == e.m["licenseId"].s

IsTrue(m, k) == k \in DOMAIN m /\ m[k].t = "Bool" /\ m[k].b

Invariants(id) == id \o <<"-","i","n","v","a","r","i","a","n","t","s">>

BareGfdl(id) == IsPrefix(<<"G","F","D","L","-">>, id) /\ Len(id) < 9

\* The loop is about to read an element that has a string licenseId
AtElementWithId ==
    /\ pc = "license loop"
    /\ i <= Len(json["licenses"].a)
    /\ HasStringId(json["licenses"].a[i])

Element == json["licenses"].a[i]

----------------------------------------------------------------------------
(* C1 *)

CopyleftPrefixes ==
    { <<"A","G","P","L","-">>, <<"C","C","-","B","Y","-","N","C","-","S","A","-">>, <<"C","C","-","B","Y","-","S","A","-">>, <<"C","E","C","I","L","L","-">>, <<"C","P","L","-">>, <<"C","D","D","L","-">>,
      <<"E","U","P","L">>, <<"G","F","D","L","-">>, <<"G","P","L","-">>, <<"L","G","P","L","-">>, <<"M","P","L","-">>, <<"N","P","L","-">>, <<"O","S","L","-">> }

CopyleftExact ==
    { <<"B","S","D","-","P","r","o","t","e","c","t","i","o","n">>, <<"M","S","-","P","L">>, <<"M","S","-","R","L">>, <<"P","a","r","i","t","y","-","6",".","0",".","0">>, <<"S","I","S","S","L">>,
      <<"x","i","n","e","t","d">>, <<"Y","P","L","-","1",".","1">> }

GnuPrefixes == { <<"A","G","P","L","-">>, <<"G","F","D","L","-">>, <<"G","P","L","-">>, <<"L","G","P","L","-">> }

Bit(holds, b) == IF holds THEN b ELSE 0

\* The sum of the bits (all distinct) whose category holds of the element
ExpectedFlags(m) ==
    Bit(IsTrue(m, "isDeprecatedLicenseId"), 4)
    + Bit(IsTrue(m, "isOsiApproved"), 2)
    + Bit(IsTrue(m, "isFsfLibre"), 1)
    + Bit(\/ \E p \in CopyleftPrefixes : IsPrefix(p, m["licenseId"].s)
          \/ m["licenseId"].s \in CopyleftExact, 8)
    + Bit(\E p \in GnuPrefixes : IsPrefix(p, m["licenseId"].s), 16)

\* A record of the id and flags text given is one that element e gives
RecordOf(id, flags, e) ==
    /\ HasStringId(e)
    /\ id \in {IdOf(e), Invariants(IdOf(e))}
    /\ flags_value(identifiers[2], flags) = ExpectedFlags(e.m)
    /\ ExpectedFlags(e.m) = 0 => flags = <<"0","x","0">>

\* C1: the flags of every record made from a license element, in the working
\* collection and then in the emitted table, are the bitwise OR of exactly
\* the bits of the categories that hold of the element (deprecated, OSI and
\* FSF-libre present and true, copyleft and GNU by the identifier), and 0x0
\* when none holds.
C1_FlagsAreTheCategoryBits ==
    /\ pc = "license loop" =>
         \A k \in 1..Len(v) :
            \E n \in 1..(i - 1) : RecordOf(v[k][1], v[k][3], json["licenses"].a[n])
    /\ TableEmitted =>
         \A k \in 1..Len(Lines("license")) :
            LET l == Lines("license")[k]
            IN  \/ l = [line |-> "license", id |-> <<"N","O","A","S","S","E","R","T","I","O","N">>,
                        name |-> <<"N","O","A","S","S","E","R","T","I","O","N">>, flags |-> <<"0","x","0">>]
                \/ \E n \in 1..Len(Upstream) : RecordOf(l.id, l.flags, Upstream[n])

\* An element with all five categories has given its two records, of flags 0x1f
C1_Witness ==
    /\ pc = "license loop"
    /\ i = 2
    /\ Len(v) = 2
    /\ flags_value(identifiers[2], v[1][3]) = 31
    /\ flags_value(identifiers[2], v[2][3]) = 31

----------------------------------------------------------------------------
(* C2 *)

\* What the step adds to v for an element of identifier id: the synthetic
\* record then the original for a bare GFDL id, the original alone otherwise
AppendsAsClaimed(id) ==
    IF BareGfdl(id)
    THEN /\ Len(v') = Len(v) + 2
         /\ SubSeq(v', 1, Len(v)) = v
         /\ v'[Len(v) + 1][1] = Invariants(id)
         /\ v'[Len(v) + 2][1] = id
         /\ v'[Len(v) + 1][2] = v'[Len(v) + 2][2]
         /\ v'[Len(v) + 1][3] = v'[Len(v) + 2][3]
    ELSE /\ Len(v') = Len(v) + 1
         /\ SubSeq(v', 1, Len(v)) = v
         /\ v'[Len(v) + 1][1] = id

\* C2: for every upstream license element (with a string id), the loop
\* appends `<id>-invariants` and then `<id>`, of the same name and flags, when
\* the id starts with GFDL- and is shorter than 9, and appends the one record
\* `<id>` otherwise.
C2_GfdlExpansion == [][AtElementWithId => AppendsAsClaimed(IdOf(Element))]_vars

\* C2 for the elements that have a `name` key: these the loop does not
\* bail on, and the statement holds of them.
C2_GfdlExpansionOfNamed ==
    [][(AtElementWithId /\ "name" \in DOMAIN Element.m)
          => AppendsAsClaimed(IdOf(Element))]_vars

----------------------------------------------------------------------------
(* C3 *)

\* C3 as stated: no two records of the emitted license table share an id.
C3_IdsUnique == Distinct(LicenseIds)

\* The upstream ids are pairwise distinct, none is the sentinel's and none is
\* the synthetic id of another
CleanUpstream ==
    /\ \A n \in 1..Len(Upstream) : HasStringId(Upstream[n])
    /\ Distinct([n \in 1..Len(Upstream) |-> IdOf(Upstream[n])])
    /\ \A n \in 1..Len(Upstream) : IdOf(Upstream[n]) # <<"N","O","A","S","S","E","R","T","I","O","N">>
    /\ \A n, k \in 1..Len(Upstream) :
          BareGfdl(IdOf(Upstream[k])) =>
             IdOf(Upstream[n]) # Invariants(IdOf(Upstream[k]))

\* C3, amended: the ids of the emitted license table are pairwise distinct
\* whenever the upstream licenseIds are pairwise distinct, none of them is
\* NOASSERTION and none of them is `<id>-invariants` for an upstream id that
\* starts with GFDL- and is shorter than 9.
C3_IdsUniqueOfCleanUpstream ==
    (TableEmitted /\ CleanUpstream) => Distinct(LicenseIds)

\* A table of four records from two clean upstream elements, one expanded
C3_Witness ==
    /\ TableEmitted
    /\ CleanUpstream
    /\ Len(Upstream) = 2
    /\ Len(LicenseIds) = 4

----------------------------------------------------------------------------
(* C4 *)

\* C4: for every license element with a string licenseId the run continues
\* and the records made have the upstream `name` for display name when it is
\* a string, and the id when `name` is absent or is no string.
C4_DisplayNameFallsBackToId ==
    [][AtElementWithId =>
          /\ result' = "Running"
          /\ Len(v') > Len(v)
          /\ \A k \in (Len(v) + 1)..Len(v') :
                v'[k][2] = IF /\ "name" \in DOMAIN Element.m
                              /\ Element.m["name"].t = "String"
                           THEN Element.m["name"].s
                           ELSE IdOf(Element)]_vars

\* C4 for the elements that have a `name` key: the fallback for a `name`
\* that is no string is the one the code has.
C4_DisplayNameOfNamed ==
    [][(AtElementWithId /\ "name" \in DOMAIN Element.m) =>
          /\ result' = "Running"
          /\ Len(v') > Len(v)
          /\ \A k \in (Len(v) + 1)..Len(v') :
                v'[k][2] = IF Element.m["name"].t = "String"
                           THEN Element.m["name"].s
                           ELSE IdOf(Element)]_vars

----------------------------------------------------------------------------
(* C5 *)

\* An element of the array that is an object without a string licenseId
BadId(e) ==
    /\ e.t = "Object"
    /\ \/ "licenseId" \notin DOMAIN e.m
       \/ e.m["licenseId"].t # "String"

HasBadId == HasLicensesArray /\ \E n \in 1..Len(Upstream) : BadId(Upstream[n])

\* C5 as stated: with an element that lacks a string licenseId the run fails
\* with "Malformed JSON", having written nothing to src/identifiers.rs.
C5_FailsHavingWrittenNothing ==
    /\ HasBadId => result # "Ok"
    /\ (HasBadId /\ Ended) =>
          /\ result = "Err"
          /\ error = MalformedJSON
          /\ identifiers = <<>>

\* C5, amended: with an element that lacks a string licenseId the run fails
\* with "Malformed JSON" and exit code 1; all that src/identifiers.rs ever
\* holds is the header written before the download (the comment and the five
\* constants): no version constant and no table; the exception document is
\* not fetched and rustfmt is not run.
C5_FailsHavingWrittenTheHeaderOnly ==
    /\ HasBadId =>
          /\ result # "Ok"
          /\ identifiers = header(upstream_tag)
          /\ Len(fetches) = 1
          /\ rustfmt = <<>>
    /\ (HasBadId /\ Ended) =>
          /\ result = "Err"
          /\ error = MalformedJSON
    /\ (HasBadId /\ pc = "exited") => exit_code = 1

\* The run has failed on a second element without a string licenseId, after
\* a first element that gave its record
C5_Witness ==
    /\ pc = "exited"
    /\ HasBadId
    /\ Len(Upstream) = 2
    /\ license_entry(Upstream[1]).ok
    /\ BadId(Upstream[2])

----------------------------------------------------------------------------
(* C6 *)

Has(kind) == Len(Lines(kind)) = 1

Pos(kind) == CHOOSE k \in 1..Len(identifiers) : identifiers[k].line = kind

Repeat(kind, n) == [k \in 1..n |-> kind]

\* C6 as stated: in a successful run the file holds the version constant,
\* then the five constants, then the license table, the alias table and the
\* exception table.
C6_VersionThenConstants ==
    result = "Ok" =>
       /\ \A kind \in {"VERSION", "constants", "LICENSES", "IMPRECISE", "EXCEPTIONS"} :
             Has(kind)
       /\ Pos("VERSION") < Pos("constants")
       /\ Pos("constants") < Pos("LICENSES")
       /\ Pos("LICENSES") < Pos("IMPRECISE")
       /\ Pos("IMPRECISE") < Pos("EXCEPTIONS")

\* The file of a successful run, line by line
Layout ==
    /\ Kinds = <<"comment", "constants", "VERSION", "blank", "LICENSES">>
               \o Repeat("license", Len(Lines("license")))
               \o <<"];", "blank", "IMPRECISE", "EXCEPTIONS">>
               \o Repeat("exception", Len(Lines("exception")))
               \o <<"];">>
    /\ identifiers[2] = [line |-> "constants", IS_FSF_LIBRE |-> 1,
                         IS_OSI_APPROVED |-> 2, IS_DEPRECATED |-> 4,
                         IS_COPYLEFT |-> 8, IS_GNU |-> 16]
    /\ identifiers[3].s = fetches[1].response.m["licenseListVersion"].s
    /\ SortedIds(LicenseIds)
    /\ SortedIds(ExceptionIds)

\* C6, amended: the file is only ever appended to, and in every successful
\* run it holds, in this order: the five bit-flag constants (IS_FSF_LIBRE=0x1,
\* IS_OSI_APPROVED=0x2, IS_DEPRECATED=0x4, IS_COPYLEFT=0x8, IS_GNU=0x10), then
\* the version constant of licenseListVersion, then the sorted license table,
\* then the alias table, then the sorted exception table.
C6_ConstantsThenVersion ==
    /\ [](result = "Ok" => Layout)
    /\ [][IsPrefix(identifiers, identifiers')]_vars

\* A successful run whose two upstream exceptions came in descending order
C6_Witness ==
    /\ result = "Ok"
    /\ Len(Lines("license")) >= 3
    /\ Len(Lines("exception")) = 2
    /\ LET e == fetches[2].response.m["exceptions"].a
       IN  ~LexLe(e[1].m["licenseExceptionId"].s, e[2].m["licenseExceptionId"].s)

----------------------------------------------------------------------------
(* C7 *)

\* C7: the emitted license table is sorted ascending by id in the
\* byte-lexicographic order, and is not empty when the upstream `licenses`
\* array is not (it has more records than the array has elements).
C7_TableSorted ==
    TableEmitted =>
       /\ SortedIds(LicenseIds)
       /\ Len(Upstream) > 0 => Len(LicenseIds) > 0
       /\ Len(LicenseIds) > Len(Upstream)

\* A table of four records whose upstream elements came in descending order
C7_Witness ==
    /\ TableEmitted
    /\ Len(Upstream) = 2
    /\ Len(LicenseIds) = 4
    /\ ~LexLe(IdOf(Upstream[1]), IdOf(Upstream[2]))

----------------------------------------------------------------------------
(* C8 *)

\* C8: every emitted license table has a record of id NOASSERTION, display
\* name NOASSERTION and flags 0x0.
C8_SentinelPresent ==
    TableEmitted =>
       \E k \in 1..Len(Lines("license")) :
          /\ Lines("license")[k] = [line |-> "license", id |-> <<"N","O","A","S","S","E","R","T","I","O","N">>,
                                    name |-> <<"N","O","A","S","S","E","R","T","I","O","N">>, flags |-> <<"0","x","0">>]
          /\ flags_value(identifiers[2], Lines("license")[k].flags) = 0

\* A table emitted for an upstream element of id NOASSERTION and other flags
C8_Witness ==
    /\ TableEmitted
    /\ Len(Upstream) = 1
    /\ IdOf(Upstream[1]) = <<"N","O","A","S","S","E","R","T","I","O","N">>
    /\ Len(Lines("license")) = 2

\* A table emitted for an empty upstream array
C8_WitnessEmpty == TableEmitted /\ Upstream = <<>>

----------------------------------------------------------------------------
(* C9 *)

\* An argument that is neither -d nor a tag
UsageError(a) ==
    \E k \in 1..Len(a) : a[k] # <<"-","d">> /\ ~IsPrefix(<<"v">>, a[k])

HasString(m, k) == k \in DOMAIN m /\ m[k].t = "String"

HasArray(m, k) == k \in DOMAIN m /\ m[k].t = "Array"

\* The response is a license document of the schema
ValidLicenseDocument(r) ==
    /\ r.t = "Object"
    /\ HasString(r.m, "licenseListVersion")
    /\ HasArray(r.m, "licenses")
    /\ \A n \in 1..Len(r.m["licenses"].a) : HasStringId(r.m["licenses"].a[n])

\* The response is an exception document of the schema
ValidExceptionDocument(r) ==
    /\ r.t = "Object"
    /\ HasArray(r.m, "exceptions")
    /\ \A n \in 1..Len(r.m["exceptions"].a) :
          /\ r.m["exceptions"].a[n].t = "Object"
          /\ HasString(r.m["exceptions"].a[n].m, "licenseExceptionId")

\* Where a run that has ended stands
AbortsOnFailure ==
    /\ result = "Err" => Ended
    /\ Len(fetches) <= 2
    /\ Distinct([k \in 1..Len(fetches) |-> fetches[k].uri])
    /\ Len(rustfmt) <= 1
    /\ (Ended /\ Len(fetches) >= 1 /\ ~ValidLicenseDocument(fetches[1].response)) =>
          /\ result = "Err"
          /\ Len(fetches) = 1
          /\ identifiers = header(upstream_tag)
          /\ rustfmt = <<>>
    /\ (Ended /\ Len(fetches) = 2 /\ ~ValidExceptionDocument(fetches[2].response)) =>
          /\ result = "Err"
          /\ Lines("EXCEPTIONS") = <<>>
          /\ rustfmt = <<>>
    /\ (Ended /\ rustfmt # <<>> /\ rustfmt[1] = "not spawned") => result = "Err"
    /\ pc # "exited" => exit_code = -1
    /\ pc = "exited" =>
          \/ result = "Err" /\ exit_code = 1
          \/ result = "Ok" /\ exit_code = 0
    /\ exit_code = 0 =>
          /\ created
          /\ Len(fetches) = 2
          /\ ValidLicenseDocument(fetches[1].response)
          /\ ValidExceptionDocument(fetches[2].response)
          /\ Len(rustfmt) = 1
          /\ rustfmt[1] # "not spawned"

\* What a step may do once real_main has failed, and what the step that
\* reads the arguments does on a usage error
NothingAfterFailure ==
    /\ result = "Err" =>
          /\ result' = "Err"
          /\ error' = error
          /\ created' = created
          /\ identifiers' = identifiers
          /\ fetches' = fetches
          /\ rustfmt' = rustfmt
    /\ (pc = "start" /\ UsageError(args)) =>
          /\ result' = "Err"
          /\ created' = FALSE
          /\ fetches' = <<>>

\* C9: a failure at any step (a usage error, the fetch of either document, a
\* schema violation in either) aborts the run: real_main returns the error,
\* after which nothing is created, fetched, written or formatted; no document
\* is fetched twice; after a failure in the license document the exception
\* document is not fetched; the exit code is 1 after a failure and 0 only
\* when the arguments, both fetches, both documents and the spawning of
\* rustfmt were good.
C9_FailureAborts == []AbortsOnFailure /\ [][NothingAfterFailure]_vars

\* A run that built the license table, failed on the exception document and
\* exited with 1
C9_Witness ==
    /\ pc = "exited"
    /\ exit_code = 1
    /\ Len(fetches) = 2
    /\ TableEmitted
    /\ ~ValidExceptionDocument(fetches[2].response)

----------------------------------------------------------------------------
(* C10 *)

\* What spawning rustfmt came to in this run ("exit 0" if it has not run)
Formatted == IF rustfmt = <<>> THEN "exit 0" ELSE rustfmt[1]

\* The run that has ended went as real_main goes with `debug` as given on
\* the documents this run fetched
EndedAs(dbg) ==
    /\ (Ended /\ Len(fetches) = 2) =>
          LET o == real_main_from_download(dbg, fetches[1].response,
                                           fetches[2].response, Formatted)
          IN  /\ result = o.result
              /\ error = o.error
              /\ identifiers = header(upstream_tag) \o o.written
    /\ (Ended /\ Len(fetches) = 1) =>
          \A e \in ExceptionResponses :
             LET o == real_main_from_download(dbg, fetches[1].response, e, "exit 0")
             IN  /\ result = o.result
                 /\ error = o.error
                 /\ identifiers = header(upstream_tag) \o o.written

\* The steps of the model and real_main_from_download agree: a run ends as
\* the function says of its documents and its own `debug`.
StepsAgreeWithFunction == EndedAs(debug)

\* C10: -d only adds diagnostics: a run, with -d or without, ends with the
\* result and the file of the run without -d on the same two documents; so an
\* exception document without licenseListVersion is accepted with -d too.
C10_DebugOnlyAddsDiagnostics == EndedAs(FALSE)
====
